---------------------------- MODULE Spec2Model ----------------------------
(***************************************************************************)
(* Model of src/code/src/game.ts: the requestAnimationFrame render loop,   *)
(* the render-count buttons and the bounded FPS history.                    *)
(*                                                                         *)
(* JavaScript runs every handler to completion on one thread, so each      *)
(* handler (main's tail, minusBtn.onclick, plusBtn.onclick, renderLoop) is *)
(* one action.  Timestamps are whole milliseconds.  A JavaScript number    *)
(* that results from a division is kept as an exact fraction               *)
(* [num, den]; den = 0 stands for the IEEE results of dividing by zero     *)
(* (num = 1: Infinity, num = -1: -Infinity, num = 0: NaN).  Rounding of    *)
(* doubles is not modelled.                                                 *)
(***************************************************************************)
EXTENDS Integers, Sequences, FiniteSets

VARIABLES
    renderCount,    \* let renderCount (line 26)
    countDisplay,   \* countDisplay.textContent, a sequence of digit characters
    lastTime,       \* let lastTime (line 22)
    fpsArray,       \* let fpsArray (line 29)
    started,        \* TRUE once main() has requested the first animation frame
    pending,        \* number of renderLoop callbacks registered with requestAnimationFrame
    uncaught,       \* TRUE once an exception has propagated out of renderLoop
    clock,          \* environment: the timestamp of the latest animation frame
    ticks,          \* number of renderLoop executions so far
    lastOp,         \* the handler that ran last
    calls,          \* the calls issued by the latest renderLoop execution, in order
    elapsedTimeMs,  \* const elapsedTimeMs of the latest renderLoop execution
    graph,          \* the samples the latest drawFPSGraph read, and its 'Current' readout
    recorded,       \* history: every value ever pushed onto fpsArray, in order
    times           \* history: the timestamp of every renderLoop execution, in order

vars == <<renderCount, countDisplay, lastTime, fpsArray, started, pending, uncaught,
          clock, ticks, lastOp, calls, elapsedTimeMs, graph, recorded, times>>

-----------------------------------------------------------------------------
(* Program constants *)

MAX_FPS_SAMPLES == 1000

MIN_RENDER_COUNT == 1

MAX_RENDER_COUNT == 100

MS_PER_SEC == 1000

\* fpsCanvas.width and fpsCanvas.height (initFPSCanvas)
FPS_CANVAS_WIDTH == 200

FPS_CANVAS_HEIGHT == 100

minFPS == 15

maxFPS == 200

(* Bounds of the model *)

\* Spec: renderLoop executions, largest step of the frame clock, and how far
\* the operator presses the plus button.
MaxTicks == 3

MaxDelta == 2

MaxCount == 3

\* SpecControl: renderLoop executions.
MaxCtlTicks == 2

\* SpecHist: renderLoop executions.
MaxHistTicks == 1500

\* SpecGraph: length of the history handed to drawFPSGraph.
MaxGraphLen == 3

-----------------------------------------------------------------------------
(* JavaScript numbers and library functions *)

MathMax(a, b) == IF a >= b THEN a ELSE b

MathMin(a, b) == IF a <= b THEN a ELSE b

Abs(n) == IF n < 0 THEN -n ELSE n

Sign(n) == IF n > 0 THEN 1 ELSE IF n < 0 THEN -1 ELSE 0

RECURSIVE Gcd(_, _)
Gcd(a, b) == IF b = 0 THEN a ELSE Gcd(b, a % b)

\* The number n/d in lowest terms with a positive denominator; n/0 is
\* Infinity, -Infinity or NaN.
Frac(n, d) ==
    IF d = 0 THEN [num |-> Sign(n), den |-> 0]
    ELSE LET g == Gcd(Abs(n), Abs(d))
         IN  [num |-> (Sign(d) * n) \div g, den |-> Abs(d) \div g]

Num(n) == [num |-> n, den |-> 1]

\* x / y for two finite numbers x and y.
JsDiv(x, y) == Frac(x.num * y.den, x.den * y.num)

IsFinite(x) == x.den # 0

IsPositive(x) == x.num > 0

NaN == [num |-> 0, den |-> 0]

IsNaN(x) == x.den = 0 /\ x.num = 0

\* x < y; every comparison with NaN is false.
JsLt(x, y) ==
    IF IsNaN(x) \/ IsNaN(y) THEN FALSE
    ELSE IF x.den = 0 /\ y.den = 0 THEN x.num < y.num
    ELSE x.num * y.den < y.num * x.den

\* Math.min and Math.max on numbers: NaN if either argument is NaN.
JsMathMin(x, y) == IF IsNaN(x) \/ IsNaN(y) THEN NaN ELSE IF JsLt(y, x) THEN y ELSE x

JsMathMax(x, y) == IF IsNaN(x) \/ IsNaN(y) THEN NaN ELSE IF JsLt(x, y) THEN y ELSE x

\* x * y; Infinity * 0 is NaN.
JsMul(x, y) == Frac(x.num * y.num, x.den * y.den)

\* x - y; Infinity - Infinity is NaN.
JsSub(x, y) ==
    IF IsFinite(x) /\ IsFinite(y)
    THEN Frac(x.num * y.den - y.num * x.den, x.den * y.den)
    ELSE IF IsNaN(x) \/ IsNaN(y) THEN NaN
    ELSE IF ~IsFinite(x) /\ ~IsFinite(y) THEN (IF x.num = y.num THEN NaN ELSE x)
    ELSE IF ~IsFinite(x) THEN x
    ELSE [num |-> -y.num, den |-> 0]

\* Math.round: the nearest integer, halves rounded up; Infinity and NaN stay.
JsMathRound(x) ==
    IF IsFinite(x) THEN Num((2 * x.num + x.den) \div (2 * x.den)) ELSE x

Digit == <<"0", "1", "2", "3", "4", "5", "6", "7", "8", "9">>

\* Number.prototype.toString of a non-negative integer: its decimal digits.
RECURSIVE toString(_)
toString(n) ==
    IF n < 10 THEN <<Digit[n + 1]>>
    ELSE Append(toString(n \div 10), Digit[(n % 10) + 1])

-----------------------------------------------------------------------------
(* The render-count buttons *)

MinusFloorZero(c) == MathMax(0, c - 1)

\* renderCount = Math.max(1, renderCount - 1)
MinusCount(c) == MathMax(MIN_RENDER_COUNT, c - 1)

PlusNoClamp(c) == c + 1

plusBtn_onclick_StaleDisplay ==
    /\ renderCount' = MathMin(MAX_RENDER_COUNT, renderCount + 1)
    /\ countDisplay' = toString(renderCount)
    /\ lastOp' = "plus"
    /\ UNCHANGED <<lastTime, fpsArray, started, pending, uncaught, clock, ticks,
                   calls, elapsedTimeMs, graph, recorded, times>>

\* renderCount = Math.min(100, renderCount + 1)
PlusCount(c) == MathMin(MAX_RENDER_COUNT, c + 1)

minusBtn_onclick ==
    /\ renderCount' = MinusCount(renderCount)
    /\ countDisplay' = toString(renderCount')
    /\ lastOp' = "minus"
    /\ UNCHANGED <<lastTime, fpsArray, started, pending, uncaught, clock, ticks,
                   calls, elapsedTimeMs, graph, recorded, times>>

plusBtn_onclick ==
    /\ renderCount' = PlusCount(renderCount)
    /\ countDisplay' = toString(renderCount')
    /\ lastOp' = "plus"
    /\ UNCHANGED <<lastTime, fpsArray, started, pending, uncaught, clock, ticks,
                   calls, elapsedTimeMs, graph, recorded, times>>

-----------------------------------------------------------------------------
(* The FPS graph *)

\* const y = height - (((clampedFPS - minFPS) / (maxFPS - minFPS)) * height)
GraphY(fps) ==
    JsSub(Num(FPS_CANVAS_HEIGHT),
          JsMul(JsDiv(JsSub(fps, Num(minFPS)), Num(maxFPS - minFPS)),
                Num(FPS_CANVAS_HEIGHT)))

ClampedFpsUpperOnly(fps) == JsMathMin(Num(maxFPS), fps)

\* const clampedFPS = Math.max(minFPS, Math.min(maxFPS, fps))
ClampedFps(fps) == JsMathMax(Num(minFPS), JsMathMin(Num(maxFPS), fps))

\* The point of the forEach callback for element fps at index i of n.
GraphPoint(fps, i, n) ==
    [x |-> JsMul(JsDiv(Num(i), Num(n - 1)), Num(FPS_CANVAS_WIDTH)),
     y |-> GraphY(ClampedFps(fps))]

\* if (fpsArray.length > 1) fpsArray.forEach((fps, i) => ctx.lineTo(x, y)):
\* the points handed to lineTo, in order.
GraphLine(arr) ==
    IF Len(arr) > 1
    THEN [j \in 1..Len(arr) |-> GraphPoint(arr[j], j - 1, Len(arr))]
    ELSE <<>>

\* Math.round(fpsArray[fpsArray.length - 1]); the element of an empty array
\* is undefined, which Math.round turns into NaN.
CurrentFps(arr) == JsMathRound(IF Len(arr) = 0 THEN NaN ELSE arr[Len(arr)])

drawFPSGraphPopsLast(arr) ==
    [fpsArray |-> SubSeq(arr, 1, Len(arr) - 1),
     samples  |-> arr,
     current  |-> CurrentFps(arr)]

\* drawFPSGraph() run on fpsArray = arr: the array as it leaves it (it only
\* reads), the samples it read and the 'Current' readout it painted.  The
\* polyline it painted is GraphLine of the samples it read.
drawFPSGraph(arr) ==
    [fpsArray |-> arr,
     samples  |-> arr,
     current  |-> CurrentFps(arr)]

\* Before the first frame nothing has been read or painted.
BlankGraph == [samples |-> <<>>, current |-> NaN]

-----------------------------------------------------------------------------
(* The render loop *)

RecordFpsNoShift(arr, fps) == Append(arr, fps)

RecordFpsSkipNonFinite(arr, fps) ==
    IF IsFinite(fps) THEN Append(arr, fps) ELSE arr

RecordFpsDropNewest(arr, fps) ==
    LET pushed == Append(arr, fps)
    IN  IF Len(pushed) > MAX_FPS_SAMPLES
        THEN SubSeq(pushed, 1, Len(pushed) - 1)
        ELSE pushed

\* fpsArray.push(fps); if (fpsArray.length > MAX_FPS_SAMPLES) fpsArray.shift()
RecordFps(arr, fps) ==
    LET pushed == Append(arr, fps)
    IN  IF Len(pushed) > MAX_FPS_SAMPLES THEN Tail(pushed) ELSE pushed

DrawLoopOneFewer(i, n, acc) == acc \o [j \in 1..(n - i - 1) |-> "artboard.draw"]

DrawLoopOneMore(i, n, acc) == acc \o [j \in 1..(n - i + 1) |-> "artboard.draw"]

\* for (let i = 0; i < renderCount; i++) artboard.draw(renderer): the body
\* runs once for each of i, i + 1, ..., n - 1, and not at all when i >= n.
DrawLoop(i, n, acc) == acc \o [j \in 1..(n - i) |-> "artboard.draw"]

FrameCallsFlushPerDraw(n) ==
    <<"drawFPSGraph", "renderer.clear", "stateMachine.advance",
      "artboard.advance", "renderer.save", "renderer.align">>
    \o [j \in 1..(2 * n) |-> IF j % 2 = 1 THEN "artboard.draw" ELSE "renderer.flush"]
    \o <<"renderer.restore", "resolveAnimationFrame">>

\* The calls of one renderLoop execution before it re-arms (lines 110-136).
FrameCalls(n) ==
    DrawLoop(0, n,
             <<"drawFPSGraph", "renderer.clear", "stateMachine.advance",
               "artboard.advance", "renderer.save", "renderer.align">>)
    \o <<"renderer.restore", "renderer.flush", "resolveAnimationFrame">>

GraphBeforePush(before, pushed) == drawFPSGraph(before)

\* drawFPSGraph() is called after the push and the shift (line 110), so it
\* runs on the updated array.
GraphAfterPush(before, pushed) == drawFPSGraph(pushed)

ReArmNever(completed) == 0

ReArmAlways(completed) == 1

\* requestAnimationFrame(renderLoop), the last statement: reached only when
\* no call before it raised.
ReArm(completed) == IF completed THEN 1 ELSE 0

\* renderLoop(time).  fail = 0: every call returns; fail = p > 0: the p-th
\* call of FrameCalls raises, and nothing catches it.  (The \E over a
\* one-element set names a value that is computed once.)
renderLoop(time, fail) ==
    LET last    == IF lastTime = 0 THEN time ELSE lastTime
        elapsed == time - last
        elapsedTimeSec == JsDiv(Num(elapsed), Num(MS_PER_SEC))
        frame   == FrameCalls(renderCount)
    IN  \E fps \in {JsDiv(Num(1), elapsedTimeSec)} :
        \E pushed \in {RecordFps(fpsArray, fps)} :
        \E drawn \in {GraphAfterPush(fpsArray, pushed)} :
            /\ lastTime' = time
            /\ elapsedTimeMs' = elapsed
            /\ fpsArray' = drawn.fpsArray
            /\ graph' = [samples |-> drawn.samples, current |-> drawn.current]
            /\ recorded' = Append(recorded, fps)
            /\ times' = Append(times, time)
            /\ calls' = IF fail = 0
                        THEN Append(frame, "requestAnimationFrame")
                        ELSE SubSeq(frame, 1, fail)
            /\ uncaught' = (fail # 0)
            /\ pending' = (pending - 1) + ReArm(fail = 0)
            /\ ticks' = ticks + 1
            /\ lastOp' = "renderLoop"
            /\ UNCHANGED <<renderCount, countDisplay, started>>

\* The browser runs a registered callback with the timestamp of the frame;
\* the frame clock never runs backwards, and two frames may share a timestamp.
\* deltas: how far the frame clock may have moved; failing: whether calls
\* may raise.
Frame(deltas, failing) ==
    /\ pending > 0
    /\ \E d \in deltas :
         /\ clock' = clock + d
         /\ \E fail \in 0..(IF failing THEN Len(FrameCalls(renderCount)) ELSE 0) :
              renderLoop(clock', fail)

\* main(), from the end of the asset load to requestAnimationFrame(renderLoop)
\* (lines 77-89).
main ==
    /\ ~started
    /\ started' = TRUE
    /\ pending' = pending + 1
    /\ lastOp' = "main"
    /\ UNCHANGED <<renderCount, countDisplay, lastTime, fpsArray, uncaught, clock,
                   ticks, calls, elapsedTimeMs, graph, recorded, times>>

-----------------------------------------------------------------------------
(* Specifications *)

\* The state when main() waits for the asset: the buttons exist (line 69),
\* no frame has been requested.
Init ==
    /\ renderCount = 1
    /\ countDisplay = <<"1">>
    /\ lastTime = 0
    /\ fpsArray = <<>>
    /\ started = FALSE
    /\ pending = 0
    /\ uncaught = FALSE
    /\ clock = 0
    /\ ticks = 0
    /\ lastOp = "init"
    /\ calls = <<>>
    /\ elapsedTimeMs = 0
    /\ graph = BlankGraph
    /\ recorded = <<>>
    /\ times = <<>>

\* Spec: every handler; the frame clock moves by 0..MaxDelta between frames,
\* any call of a frame may raise, and the operator keeps the count at or
\* below MaxCount.
Minus == minusBtn_onclick

Plus == renderCount < MaxCount /\ plusBtn_onclick

Tick == ticks < MaxTicks /\ Frame(0..MaxDelta, TRUE)

Next == main \/ Minus \/ Plus \/ Tick

Spec == Init /\ [][Next]_vars

\* The browser keeps delivering animation frames to a registered callback.
FairSpec == Spec /\ WF_vars(Tick)

\* SpecControl: the buttons over their whole range, between frames that are
\* one millisecond apart and whose calls all return.
TickCtl == ticks < MaxCtlTicks /\ Frame({1}, FALSE)

NextControl == main \/ minusBtn_onclick \/ plusBtn_onclick \/ TickCtl

SpecControl == Init /\ [][NextControl]_vars

\* SpecHist: a long run of frames with the count left alone; the n-th frame
\* comes n milliseconds after the one before, so every finite sample differs.
TickHist == ticks < MaxHistTicks /\ Frame({ticks + 1}, FALSE)

NextHist == main \/ TickHist

SpecHist == Init /\ [][NextHist]_vars

\* SpecGraph: drawFPSGraph as a function of the history.  The history is any
\* sequence of at most MaxGraphLen samples, each the 1 / elapsedTimeSec of a
\* frame that came 0, 2, 5, 7, 17, 67 or 100 ms after the one before (Infinity,
\* above 200, 200, inside the range, and below 15).
GraphElapsed == {0, 2, 5, 7, 17, 67, 100}

GraphSamples == {JsDiv(Num(1), JsDiv(Num(e), Num(MS_PER_SEC))) : e \in GraphElapsed}

RECURSIVE SeqsUpTo(_, _)
SeqsUpTo(S, n) ==
    IF n = 0 THEN {<<>>}
    ELSE LET shorter == SeqsUpTo(S, n - 1)
         IN  shorter \cup {Append(q, v) : q \in shorter, v \in S}

InitGraph ==
    /\ fpsArray \in SeqsUpTo(GraphSamples, MaxGraphLen)
    /\ renderCount = 1
    /\ countDisplay = <<"1">>
    /\ lastTime = 0
    /\ started = FALSE
    /\ pending = 0
    /\ uncaught = FALSE
    /\ clock = 0
    /\ ticks = 0
    /\ lastOp = "init"
    /\ calls = <<>>
    /\ elapsedTimeMs = 0
    /\ graph = BlankGraph
    /\ recorded = fpsArray
    /\ times = <<>>

DrawGraph ==
    /\ lastOp = "init"
    /\ LET drawn == drawFPSGraph(fpsArray)
       IN  /\ fpsArray' = drawn.fpsArray
           /\ graph' = [samples |-> drawn.samples, current |-> drawn.current]
    /\ lastOp' = "drawFPSGraph"
    /\ UNCHANGED <<renderCount, countDisplay, lastTime, started, pending, uncaught,
                   clock, ticks, calls, elapsedTimeMs, recorded, times>>

NextGraph == DrawGraph

SpecGraph == InitGraph /\ [][NextGraph]_vars

-----------------------------------------------------------------------------
(* Properties *)

Count(seq, x) == Cardinality({i \in DOMAIN seq : seq[i] = x})

Last(seq) == seq[Len(seq)]

\* A step that is one execution of renderLoop.
IsTick == ticks' = ticks + 1

StrictlyIncreasing(seq) == \A i \in 1..(Len(seq) - 1) : seq[i] < seq[i + 1]

\* C1: renderCount is an integer in [1,100] in every reachable state, however
\* plus and minus clicks interleave with frames.
C1_RenderCountInRange == renderCount \in 1..100

C1_Witness == renderCount = 100 /\ lastOp = "plus" /\ ticks > 0

\* C2: the FPS history never holds more than 1000 entries.
C2_HistoryBounded == Len(fpsArray) <= 1000

C2_Witness == Len(recorded) > 1000 /\ Len(fpsArray) = 1000

\* C3: once more than 1000 samples have been recorded, the history is exactly
\* the latest 1000 of them in recording order, oldest first; after 1500
\* records it holds records 501..1500.
C3_MostRecentWindow ==
    /\ Len(recorded) > 1000 =>
         fpsArray = SubSeq(recorded, Len(recorded) - 999, Len(recorded))
    /\ Len(recorded) = 1500 =>
         /\ Len(fpsArray) = 1000
         /\ \A i \in 1..1000 : fpsArray[i] = recorded[500 + i]

C3_Witness ==
    /\ Len(recorded) = 1500
    /\ \A i, j \in 1..1500 : i # j => recorded[i] # recorded[j]
    /\ fpsArray[1] = recorded[501]
    /\ fpsArray[1000] = recorded[1500]

\* C4: a frame whose elapsed time is zero leaves the FPS history as it was,
\* and still advances the scene by zero and draws it renderCount times.
C4_ZeroElapsedRecordsNothing ==
    [][(IsTick /\ elapsedTimeMs' = 0 /\ ~uncaught') =>
          /\ fpsArray' = fpsArray
          /\ Count(calls', "artboard.advance") = 1
          /\ Count(calls', "artboard.draw") = renderCount]_vars

\* C5: on strictly increasing timestamps, also ones that start at 0, every
\* frame after the first takes its elapsed time from the frame just before it
\* and records 1000 / elapsed as its sample.
C5_ElapsedFromPrecedingTick ==
    [][(IsTick /\ ticks >= 1 /\ StrictlyIncreasing(times')) =>
          /\ elapsedTimeMs' = Last(times') - Last(times)
          /\ Last(recorded') = Frac(1000, Last(times') - Last(times))]_vars

\* C6: a frame that starts with renderCount = k and whose calls all return
\* issues exactly k artboard.draw calls and exactly one stateMachine.advance,
\* one artboard.advance and one renderer.flush.
C6_DrawCardinality ==
    [][(IsTick /\ ~uncaught') =>
          /\ Count(calls', "artboard.draw") = renderCount
          /\ Count(calls', "stateMachine.advance") = 1
          /\ Count(calls', "artboard.advance") = 1
          /\ Count(calls', "renderer.flush") = 1]_vars

C6_Witness ==
    /\ lastOp = "renderLoop"
    /\ renderCount = 100
    /\ Count(calls, "artboard.draw") = 100
    /\ Count(calls, "renderer.flush") = 1

\* C7: every frame that runs to completion re-arms exactly one next frame:
\* once started, and as long as no frame has failed, exactly one callback is
\* pending, the loop can always take another frame, and under fair delivery
\* the number of frames executed reaches any bound set on it.
C7_AlwaysRearmed ==
    /\ []((started /\ ~uncaught) => pending = 1)
    /\ [][(IsTick /\ ~uncaught') =>
             (pending' = 1 /\ Count(calls', "requestAnimationFrame") = 1)]_vars
    /\ []((started /\ ~uncaught /\ ticks < MaxTicks) => ENABLED Tick)
    /\ started ~> (uncaught \/ ticks = MaxTicks)

C7_Witness == ticks = MaxTicks /\ ~uncaught /\ pending = 1

\* C8: plus sets renderCount to min(100, renderCount + 1) and minus sets it to
\* max(1, renderCount - 1): a no-op at the bound, a change by exactly one
\* everywhere else.
C8_ClampedSteps ==
    [][/\ lastOp' = "plus" =>
            renderCount' = (IF renderCount = 100 THEN 100 ELSE renderCount + 1)
       /\ lastOp' = "minus" =>
            renderCount' = (IF renderCount = 1 THEN 1 ELSE renderCount - 1)]_vars

C8_Witness == lastOp = "minus" /\ renderCount = 99

\* C9: every value stored in the FPS history is finite and strictly positive.
C9_SamplesFinitePositive ==
    \A i \in DOMAIN fpsArray : IsFinite(fpsArray[i]) /\ IsPositive(fpsArray[i])

\* C10: a call that raises during a frame is not caught: that frame does not
\* re-arm, no callback is pending afterwards, and the history, lastTime and
\* the frame's calls never change again.
C10_FailureIsFatal ==
    /\ [](uncaught => pending = 0)
    /\ [][(IsTick /\ uncaught') =>
             (pending' = 0 /\ Count(calls', "requestAnimationFrame") = 0)]_vars
    /\ [][uncaught =>
             (uncaught' /\ UNCHANGED <<fpsArray, lastTime, calls, ticks, pending>>)]_vars

C10_Witness ==
    /\ uncaught
    /\ Last(calls) = "artboard.draw"
    /\ Count(calls, "artboard.draw") = 2
    /\ lastOp = "minus"
    /\ Len(fpsArray) = 2

\* The calls on the scene and the renderer that C11 orders.
IsSceneCall(c) ==
    c \notin {"drawFPSGraph", "renderer.clear", "requestAnimationFrame"}

SceneOrder(k) ==
    <<"stateMachine.advance", "artboard.advance", "renderer.save", "renderer.align">>
    \o [j \in 1..k |-> "artboard.draw"]
    \o <<"renderer.restore", "renderer.flush", "resolveAnimationFrame">>

IsPrefix(s, t) == Len(s) <= Len(t) /\ s = SubSeq(t, 1, Len(s))

\* C11: the scene calls of a frame come in the order state-machine advance,
\* artboard advance, save, align, all draws back to back, restore, one flush,
\* end-of-frame signal; a frame cut short by an exception issues a prefix of
\* that order.
C11_SceneCallOrder ==
    LET scene == SelectSeq(calls, IsSceneCall)
        k     == Count(calls, "artboard.draw")
    IN  /\ \E m \in k..MAX_RENDER_COUNT : IsPrefix(scene, SceneOrder(m))
        /\ (ticks > 0 /\ ~uncaught) => scene = SceneOrder(k)

C11_Witness ==
    /\ ticks > 0
    /\ ~uncaught
    /\ Count(calls, "artboard.draw") = 3
    /\ calls[7] = "artboard.draw"
    /\ calls[9] = "artboard.draw"
    /\ calls[10] = "renderer.restore"

\* The sample the latest frame pushed, written without the division operators.
SampleOf(elapsed) == Frac(1000, elapsed)

\* The history after pushing v onto arr, written without RecordFps.
Pushed(arr, v) ==
    IF Len(arr) < 1000 THEN arr \o <<v>> ELSE SubSeq(arr, 2, Len(arr)) \o <<v>>

\* C12: a frame first computes its elapsed time from the old lastTime and
\* stores the new lastTime, then records the sample, then runs the visualizer
\* (which therefore reads the history with this frame's sample in it), then
\* advances and draws the scene, and re-arms last.
C12_FrameStepOrder ==
    [][IsTick =>
         /\ elapsedTimeMs' =
              Last(times') - (IF lastTime = 0 THEN Last(times') ELSE lastTime)
         /\ lastTime' = Last(times')
         /\ Last(recorded') = SampleOf(elapsedTimeMs')
         /\ graph'.samples = Pushed(fpsArray, SampleOf(elapsedTimeMs'))
         /\ calls'[1] = "drawFPSGraph"
         /\ \A j \in 2..Len(calls') : calls'[j] # "drawFPSGraph"
         /\ ~uncaught' =>
              /\ Last(calls') = "requestAnimationFrame"
              /\ Count(calls', "requestAnimationFrame") = 1
              /\ Count(calls', "artboard.draw") = renderCount]_vars

C12_Witness ==
    /\ ticks = 2
    /\ ~uncaught
    /\ Len(graph.samples) = 2
    /\ IsFinite(Last(graph.samples))
    /\ Last(graph.samples) = SampleOf(elapsedTimeMs)
    /\ Last(calls) = "requestAnimationFrame"

\* C13: a frame is atomic with respect to the buttons: the draws a frame
\* issues are as many as renderCount was when it started, the frame leaves
\* renderCount alone, and a click changes neither the calls of the frame
\* before it nor the number of frames executed.
C13_FrameAtomic ==
    [][/\ (IsTick /\ ~uncaught') =>
            /\ Count(calls', "artboard.draw") = renderCount
            /\ renderCount' = renderCount
       /\ lastOp' \in {"plus", "minus"} =>
            /\ calls' = calls
            /\ ticks' = ticks
            /\ pending' = pending]_vars

C13_Witness ==
    /\ lastOp = "renderLoop"
    /\ ticks = 2
    /\ renderCount = 5
    /\ Count(calls, "artboard.draw") = 5

\* C14: a frame never changes renderCount (nor its display); a click never
\* changes the FPS history or lastTime; and the history a frame leaves behind
\* is the old one with exactly this frame's sample pushed, so the visualizer
\* run inside the frame changed nothing.
C14_SingleWriter ==
    [][/\ IsTick =>
            /\ renderCount' = renderCount
            /\ countDisplay' = countDisplay
            /\ fpsArray' = Pushed(fpsArray, Last(recorded'))
            /\ fpsArray' = graph'.samples
            /\ lastTime' = Last(times')
       /\ lastOp' \in {"plus", "minus"} =>
            /\ fpsArray' = fpsArray
            /\ lastTime' = lastTime
            /\ graph' = graph]_vars

C14_Witness ==
    /\ ticks = 2
    /\ lastOp = "plus"
    /\ renderCount = 3
    /\ Len(fpsArray) = 2
    /\ lastTime > 0

\* The y of a sample written out: the value clamped into [15, 200], then
\* 100 * (200 - clamped) / 185.
ExpectedY(v) ==
    LET c == IF v.den = 0 \/ v.num > 200 * v.den THEN [num |-> 200, den |-> 1]
             ELSE IF v.num < 15 * v.den THEN [num |-> 15, den |-> 1]
             ELSE v
    IN  Frac(100 * (200 * c.den - c.num), 185 * c.den)

\* C15: for a history of n samples the visualizer draws no polyline point when
\* n <= 1; when n > 1 it draws n points in history order, sample i (from 0) at
\* x = i / (n - 1) * 200 and at the y of its value clamped into [15, 200], and
\* every y lies in [0, 100].
C15_Polyline ==
    lastOp = "drawFPSGraph" =>
        LET n   == Len(graph.samples)
            pts == GraphLine(graph.samples)
        IN  /\ graph.samples = fpsArray
            /\ n <= 1 => pts = <<>>
            /\ n > 1 =>
                 /\ Len(pts) = n
                 /\ pts[1].x = Num(0)
                 /\ pts[n].x = Num(200)
                 /\ \A i \in 1..n :
                      /\ pts[i].x = Frac((i - 1) * 200, n - 1)
                      /\ pts[i].y = ExpectedY(graph.samples[i])
                      /\ IsFinite(pts[i].y)
                      /\ pts[i].y.num >= 0
                      /\ pts[i].y.num <= 100 * pts[i].y.den

C15_Witness ==
    /\ lastOp = "drawFPSGraph"
    /\ Len(graph.samples) = 3
    /\ ~IsFinite(graph.samples[1])
    /\ JsLt(graph.samples[2], Num(15))
    /\ graph.samples[3] = Frac(1000, 17)
    /\ GraphLine(graph.samples)[2].y = Num(100)
    /\ GraphLine(graph.samples)[1].y = Num(0)

DigitValue(ch) == CHOOSE d \in 0..9 : Digit[d + 1] = ch

RECURSIVE DecimalValue(_)
DecimalValue(text) ==
    IF Len(text) = 0 THEN 0
    ELSE 10 * DecimalValue(SubSeq(text, 1, Len(text) - 1)) + DigitValue(Last(text))

\* C16: the text of countDisplay is the decimal form of renderCount in every
\* state: '1' at the start and rewritten by every click, also by the clicks
\* at the bounds that leave the count as it is.
C16_DisplayShowsCount ==
    /\ Len(countDisplay) >= 1
    /\ \A j \in DOMAIN countDisplay : \E d \in 0..9 : countDisplay[j] = Digit[d + 1]
    /\ countDisplay[1] # "0"
    /\ DecimalValue(countDisplay) = renderCount

C16_Witness ==
    /\ lastOp = "plus"
    /\ renderCount = 100
    /\ countDisplay = <<"1", "0", "0">>

\* C17: whenever drawFPSGraph runs the history it reads is not empty, so its
\* 'Current' readout is the rounding of a stored sample; it runs only inside a
\* frame.
C17_GraphReadsNonEmpty ==
    /\ [](ticks > 0 => (Len(graph.samples) > 0 /\ ~IsNaN(graph.current)))
    /\ [][IsTick => (Len(graph'.samples) > 0
                     /\ graph'.current = JsMathRound(Last(recorded')))]_vars
    /\ [][graph' # graph => IsTick]_vars

C17_Witness ==
    /\ ticks = 1
    /\ Len(graph.samples) = 1
    /\ graph.current = [num |-> 1, den |-> 0]

=============================================================================
